---- MODULE Spec2Model ----
(***************************************************************************)
(* Model of moving_average_analyzer/analyzer.py: the feature pipeline      *)
(* run_cli -> analyze_ticker -> prepare_dataset (download_data,            *)
(* compute_moving_averages, compute_indicators, compute_labels, dropna,    *)
(* reset_index, column projection) -> to_csv, and the two stage functions  *)
(* compute_labels and compute_indicators called directly on a table, as    *)
(* tests/test_analyzer.py calls them.                                      *)
(*                                                                         *)
(* Floating-point values are modelled as exact rationals <<n, d>> in       *)
(* lowest terms with d > 0, extended with the three IEEE specials the      *)
(* pandas arithmetic of the program can produce: NaN = <<0, 0>>,           *)
(* +inf = <<1, 0>>, -inf = <<-1, 0>>.  Rounding error is not modelled.     *)
(***************************************************************************)
EXTENDS Integers, Sequences, FiniteSets, TLC

VARIABLES pc, config, yf, df, rolling_max, error, csv

vars == <<pc, config, yf, df, rolling_max, error, csv>>

----------------------------------------------------------------------------
(* Bounds of the model. *)

\* Longest table the data provider returns / a caller passes.
MaxRows == 6
\* Largest slope window the caller configures.
MaxSlopeWindow == 2
\* The program fixes the windows 50, 100 and 200 (analyzer.py:70-75); the
\* model keeps their order and their roles but scales them so that tables
\* of MaxRows rows run past every warm-up.
FastWindow == 2
MidWindow == 3
SlowWindow == 4
\* pd.Timestamp.today().normalize(), in whole years since an epoch.
Today == 10
\* Longest table passed directly to compute_indicators.
MaxIndRows == 3
\* Longest table passed directly to compute_labels.
MaxLabelRows == 4

----------------------------------------------------------------------------
(* Floating-point values. *)

NaN == <<0, 0>>
PosInf == <<1, 0>>
NegInf == <<-1, 0>>

IsNaN(x) == x[1] = 0 /\ x[2] = 0
IsInf(x) == x[1] # 0 /\ x[2] = 0
IsFinite(x) == x[2] > 0

Abs(n) == IF n < 0 THEN -n ELSE n
Sign(n) == IF n < 0 THEN -1 ELSE IF n > 0 THEN 1 ELSE 0

RECURSIVE GCD(_, _)
GCD(a, b) == IF b = 0 THEN a ELSE GCD(b, a % b)

\* The rational n/d (d > 0) in lowest terms.
Norm(n, d) ==
    LET g == GCD(Abs(n), d)
    IN  <<(Abs(n) \div g) * Sign(n), d \div g>>

Float(n) == <<n, 1>>

Neg(x) == <<-x[1], x[2]>>

\* x + y in IEEE arithmetic.
Add(x, y) ==
    IF IsNaN(x) \/ IsNaN(y) THEN NaN
    ELSE IF IsInf(x) /\ IsInf(y) THEN (IF x = y THEN x ELSE NaN)
    ELSE IF IsInf(x) THEN x
    ELSE IF IsInf(y) THEN y
    ELSE LET g == GCD(x[2], y[2])
         IN  Norm(x[1] * (y[2] \div g) + y[1] * (x[2] \div g),
                  (x[2] \div g) * y[2])

Sub(x, y) == Add(x, Neg(y))

\* x * y in IEEE arithmetic.
Mul(x, y) ==
    IF IsNaN(x) \/ IsNaN(y) THEN NaN
    ELSE IF IsInf(x) \/ IsInf(y)
         THEN (IF x[1] = 0 \/ y[1] = 0 THEN NaN
               ELSE <<Sign(x[1]) * Sign(y[1]), 0>>)
    ELSE LET g1 == GCD(Abs(x[1]), y[2])
             g2 == GCD(Abs(y[1]), x[2])
         IN  Norm((x[1] \div g1) * (y[1] \div g2),
                  (x[2] \div g2) * (y[2] \div g1))

\* x / y in IEEE arithmetic (numpy float64 division as pandas performs it:
\* no exception; 0/0 is NaN, a non-zero value over 0 is an infinity).
Div(x, y) ==
    IF IsNaN(x) \/ IsNaN(y) THEN NaN
    ELSE IF IsInf(x) /\ IsInf(y) THEN NaN
    ELSE IF IsInf(x) THEN <<x[1] * (IF y[1] < 0 THEN -1 ELSE 1), 0>>
    ELSE IF IsInf(y) THEN Float(0)
    ELSE IF y[1] = 0 THEN (IF x[1] = 0 THEN NaN ELSE <<Sign(x[1]), 0>>)
    ELSE Mul(x, <<Sign(y[1]) * y[2], Abs(y[1])>>)

\* x <= y on floats: False when either side is NaN.
Le(x, y) ==
    /\ ~IsNaN(x)
    /\ ~IsNaN(y)
    /\ IF IsInf(x) \/ IsInf(y)
       THEN x = y \/ x = NegInf \/ y = PosInf
       ELSE x[1] * y[2] <= y[1] * x[2]

\* x > y on floats: False when either side is NaN.
Gt(x, y) == ~IsNaN(x) /\ ~IsNaN(y) /\ ~Le(x, y)

\* max(x, y) as cummax uses it (operands are never NaN here, see cummax).
FMax(x, y) == IF Le(x, y) THEN y ELSE x

\* bool.astype(int)
AsInt(b) == IF b THEN 1 ELSE 0

----------------------------------------------------------------------------
(* Tables.  A DataFrame is a record of columns, each a sequence with one   *)
(* entry per row; Date is the index (a column after reset_index).  A       *)
(* column the table does not have yet is the empty sequence.  Of the       *)
(* provider's price columns only Close is carried: no stage reads Open,    *)
(* High, Low or Volume.                                                    *)

FloatColumns ==
    <<"Close", "SMA50", "SMA100", "SMA200", "EMA50", "EMA200",
      "SMA50_to_SMA200", "EMA50_to_EMA200", "Dist_SMA200", "Dist_EMA200",
      "Slope_SMA50", "Slope_EMA50", "Slope_SMA200", "Slope_EMA200",
      "Drawdown">>

IntColumns == <<"GoldenCross", "InCorrection", "InBearMarket", "Label">>

Range(s) == {s[i] : i \in DOMAIN s}

AllColumns == {"Date"} \cup Range(FloatColumns) \cup Range(IntColumns)

EmptyFrame == [c \in AllColumns |-> <<>>]

\* pd.DataFrame({"Close": closes}) with the default RangeIndex.
FrameOf(closes) ==
    [EmptyFrame EXCEPT !["Date"] = [i \in 1..Len(closes) |-> i],
                       !["Close"] = closes]

NRows(d) == Len(d["Date"])

----------------------------------------------------------------------------
(* Library operations on a column. *)

\* Sum of s[lo..hi].
RECURSIVE SumRange(_, _, _)
SumRange(s, lo, hi) ==
    IF hi < lo THEN Float(0) ELSE Add(SumRange(s, lo, hi - 1), s[hi])

\* ta SMAIndicator(window=N, fillna=False).sma_indicator():
\* close.rolling(N, min_periods=N).mean()
sma_indicator(close, N) ==
    [t \in 1..Len(close) |->
        IF t < N THEN NaN
        ELSE Div(SumRange(close, t - N + 1, t), Float(N))]

\* close.ewm(span=N, adjust=False).mean(), rows 1..t:
\* y[1] = x[1], y[k] = (1 - alpha) * y[k-1] + alpha * x[k], alpha = 2/(N+1).
RECURSIVE ewm_mean(_, _, _)
ewm_mean(close, N, t) ==
    IF t = 0 THEN <<>>
    ELSE IF t = 1 THEN <<close[1]>>
    ELSE LET y == ewm_mean(close, N, t - 1)
         IN  Append(y, Add(Mul(Norm(N - 1, N + 1), y[t - 1]),
                           Mul(Norm(2, N + 1), close[t])))

\* ta EMAIndicator(window=N, fillna=False).ema_indicator():
\* close.ewm(span=N, min_periods=N, adjust=False).mean()
ema_indicator(close, N) ==
    LET y == ewm_mean(close, N, Len(close))
    IN  [t \in 1..Len(close) |-> IF t < N THEN NaN ELSE y[t]]

\* Mutant of shift: the leading rows are back-filled with the first value
\* instead of being left undefined.
shift_backfilled(s, periods) ==
    [t \in 1..Len(s) |-> IF t - periods >= 1 THEN s[t - periods] ELSE s[1]]

\* Series.shift(periods) for periods >= 0.
shift(s, periods) ==
    [t \in 1..Len(s) |-> IF t - periods >= 1 THEN s[t - periods] ELSE NaN]

\* The largest non-NaN value among s[1..t], NaN when there is none.
RECURSIVE RunningMax(_, _)
RunningMax(s, t) ==
    IF t = 0 THEN NaN
    ELSE LET before == RunningMax(s, t - 1)
         IN  IF IsNaN(s[t]) THEN before
             ELSE IF IsNaN(before) THEN s[t]
             ELSE FMax(before, s[t])

\* Mutant of cummax: the maximum restarts at every row (current and previous
\* row only).
cummax_restarting(s) ==
    [t \in 1..Len(s) |->
        IF t = 1 \/ IsNaN(s[t]) \/ IsNaN(s[t - 1]) THEN s[t]
        ELSE FMax(s[t - 1], s[t])]

\* Series.cummax() (skipna: a NaN row stays NaN and does not reset the max).
cummax(s) ==
    [t \in 1..Len(s) |-> IF IsNaN(s[t]) THEN NaN ELSE RunningMax(s, t)]

\* Elementwise helpers.
ColDiv(a, b) == [t \in 1..Len(a) |-> Div(a[t], b[t])]
ColSub(a, b) == [t \in 1..Len(a) |-> Sub(a[t], b[t])]

\* (x - x.shift(w)) / w
SlopeOf(x, slope_window) ==
    LET shifted == shift(x, slope_window)
    IN  [t \in 1..Len(x) |->
            Div(Sub(x[t], shifted[t]), Float(slope_window))]

\* Mutant of FlagBelow: strict comparison.
FlagBelowStrict(drawdown, threshold) ==
    [t \in 1..Len(drawdown) |->
        AsInt(Le(drawdown[t], Neg(threshold))
              /\ drawdown[t] # Neg(threshold))]

\* (drawdown <= -threshold).astype(int)
FlagBelow(drawdown, threshold) ==
    [t \in 1..Len(drawdown) |-> AsInt(Le(drawdown[t], Neg(threshold)))]

\* Mutant of LabelOf: the label follows the correction flag alone.
LabelOfCorrectionOnly(in_correction, in_bear) ==
    [t \in 1..Len(in_correction) |-> AsInt(in_correction[t] = 1)]

\* ((in_correction == 1) | (in_bear == 1)).astype(int)
LabelOf(in_correction, in_bear) ==
    [t \in 1..Len(in_correction) |->
        AsInt(in_correction[t] = 1 \/ in_bear[t] = 1)]

\* (sma50 > sma200).astype(int)
GoldenCrossOf(sma50, sma200) ==
    [t \in 1..Len(sma50) |-> AsInt(Gt(sma50[t], sma200[t]))]

----------------------------------------------------------------------------
(* The stage functions. *)

compute_moving_averages(d) ==
    LET closes == d["Close"]
    IN  [d EXCEPT !["SMA50"] = sma_indicator(closes, FastWindow),
                  !["SMA100"] = sma_indicator(closes, MidWindow),
                  !["SMA200"] = sma_indicator(closes, SlowWindow),
                  !["EMA50"] = ema_indicator(closes, FastWindow),
                  !["EMA200"] = ema_indicator(closes, SlowWindow)]

compute_indicators(d, slope_window) ==
    [d EXCEPT
        !["GoldenCross"] = GoldenCrossOf(d["SMA50"], d["SMA200"]),
        !["SMA50_to_SMA200"] = ColDiv(d["SMA50"], d["SMA200"]),
        !["EMA50_to_EMA200"] = ColDiv(d["EMA50"], d["EMA200"]),
        !["Dist_SMA200"] = ColDiv(ColSub(d["Close"], d["SMA200"]), d["SMA200"]),
        !["Dist_EMA200"] = ColDiv(ColSub(d["Close"], d["EMA200"]), d["EMA200"]),
        !["Slope_SMA50"] = SlopeOf(d["SMA50"], slope_window),
        !["Slope_EMA50"] = SlopeOf(d["EMA50"], slope_window),
        !["Slope_SMA200"] = SlopeOf(d["SMA200"], slope_window),
        !["Slope_EMA200"] = SlopeOf(d["EMA200"], slope_window)]

\* The Drawdown column: (Close / rolling_max) - 1.0
DrawdownOf(close, running) ==
    [t \in 1..Len(close) |-> Sub(Div(close[t], running[t]), Float(1))]

compute_labels(d, correction_threshold, bear_threshold) ==
    LET drawdown == DrawdownOf(d["Close"], cummax(d["Close"]))
        in_correction == FlagBelow(drawdown, correction_threshold)
        in_bear == FlagBelow(drawdown, bear_threshold)
    IN  [d EXCEPT !["Drawdown"] = drawdown,
                  !["InCorrection"] = in_correction,
                  !["InBearMarket"] = in_bear,
                  !["Label"] = LabelOf(in_correction, in_bear)]

\* The rows of s whose positions are in keep, in order.
RECURSIVE SelectRows(_, _, _)
SelectRows(s, keep, t) ==
    IF t = 0 THEN <<>>
    ELSE IF t \in keep THEN Append(SelectRows(s, keep, t - 1), s[t])
    ELSE SelectRows(s, keep, t - 1)

\* Mutant of dropna: only the averages are inspected (dropna with a subset).
dropna_averages(d) ==
    LET keep == {t \in 1..NRows(d) :
                    \A c \in {"SMA50", "SMA100", "SMA200", "EMA50", "EMA200"} :
                        ~IsNaN(d[c][t])}
    IN  [c \in AllColumns |-> SelectRows(d[c], keep, NRows(d))]

\* DataFrame.dropna(): drop every row that has a NaN in any column
\* (an infinity is not a missing value and is kept).
dropna(d) ==
    LET keep == {t \in 1..NRows(d) :
                    \A i \in DOMAIN FloatColumns : ~IsNaN(d[FloatColumns[i]][t])}
    IN  [c \in AllColumns |-> SelectRows(d[c], keep, NRows(d))]

----------------------------------------------------------------------------
(* Optional values: None is <<>>, a supplied value v is <<v>>. *)

None == <<>>
Some(v) == <<v>>

\* `a or b` on an Optional a (a supplied Timestamp is truthy).
OrElse(a, b) == IF a = None THEN b ELSE a[1]

\* Arguments a direct call of a stage function does not take.
NoConfig ==
    [ticker |-> "", start |-> None, end |-> None, slope_window |-> 0,
     correction_threshold |-> NaN, bear_threshold |-> NaN,
     years_back |-> 0, output_csv |-> None]

NoError == [raised |-> FALSE, ticker |-> "", start |-> 0, end |-> 0]

\* The data provider before yf.download is called.
NotCalled == [called |-> FALSE, ticker |-> "", start |-> 0, end |-> 0, rows |-> 0]

\* All sequences over S of length 0..n.
SeqsUpTo(S, n) == UNION {[1..k -> S] : k \in 0..n}

----------------------------------------------------------------------------
(* compute_labels called on a table of closes, as                          *)
(* test_compute_labels_flags_correction_and_bear calls it.                 *)

\* Closes of the repository's test (test_analyzer.py:9).
TestCloses ==
    <<Float(100), Float(110), Float(108), Float(90), Float(88), Float(70)>>

\* Non-negative prices: 9/10 and 8/10 sit exactly on the default thresholds,
\* 8/9 between them, 0 is the smallest price the data model admits.
LabelPrices == {Float(0), Float(8), Float(9), Float(10)}

\* Threshold magnitudes: the defaults 0.10 and 0.20 (analyzer.py:18-19).
Thresholds == {Norm(1, 10), Norm(1, 5)}

InitLabels ==
    /\ pc = "call_labels"
    /\ \E closes \in SeqsUpTo(LabelPrices, MaxLabelRows) \cup {TestCloses} :
          df = FrameOf(closes)
    /\ \E ct \in Thresholds, bt \in Thresholds :
          config = [NoConfig EXCEPT !.correction_threshold = ct,
                                    !.bear_threshold = bt]
    /\ yf = NotCalled
    /\ rolling_max = <<>>
    /\ error = NoError
    /\ csv = None

\* analyzer.compute_labels(df, correction_threshold, bear_threshold)
CallComputeLabels ==
    /\ pc = "call_labels"
    /\ pc' = "labels_returned"
    /\ rolling_max' = cummax(df["Close"])
    /\ df' = compute_labels(df, config.correction_threshold,
                            config.bear_threshold)
    /\ UNCHANGED <<config, yf, error, csv>>

NextLabels == CallComputeLabels

SpecLabels == InitLabels /\ [][NextLabels]_vars

----------------------------------------------------------------------------
(* Properties of compute_labels. *)

\* max(Close[1..t]) stated without the running scan.
MaxClose(close, t) ==
    CHOOSE m \in {close[i] : i \in 1..t} : \A j \in 1..t : Le(close[j], m)

LabelsDone == pc = "labels_returned"

RunningMaxIsPrefixMax ==
    \A t \in 1..NRows(df) :
        /\ rolling_max[t] = MaxClose(df["Close"], t)
        /\ t > 1 => Le(rolling_max[t - 1], rolling_max[t])

\* C1 as stated: for every series of non-negative closes, at every row the
\* running maximum is max(Close[0..t]) (non-decreasing, never reset) and
\* Drawdown[t] = Close[t]/running_max[t] - 1 is defined and <= 0.
C1_Original ==
    LabelsDone =>
        /\ RunningMaxIsPrefixMax
        /\ \A t \in 1..NRows(df) :
              /\ IsFinite(df["Drawdown"][t])
              /\ Le(df["Drawdown"][t], Float(0))

\* C1 amended: the running maximum is max(Close[0..t]) at every row, and
\* Drawdown[t] = Close[t]/running_max[t] - 1 is defined and <= 0 at every
\* row whose running maximum is positive; at a row whose running maximum is
\* zero (every close so far is 0) Drawdown is undefined.
C1_DrawdownNonPositive ==
    LabelsDone =>
        /\ RunningMaxIsPrefixMax
        /\ \A t \in 1..NRows(df) :
              IF Gt(rolling_max[t], Float(0))
              THEN /\ IsFinite(df["Drawdown"][t])
                   /\ Le(df["Drawdown"][t], Float(0))
                   /\ Add(df["Drawdown"][t], Float(1)) =
                         Norm(df["Close"][t][1] * rolling_max[t][2],
                              df["Close"][t][2] * rolling_max[t][1])
              ELSE IsNaN(df["Drawdown"][t])

\* A series whose peak is reached after the first row and is followed by a
\* lower close.
C1_Witness ==
    /\ LabelsDone
    /\ NRows(df) >= 3
    /\ \E t \in 2..NRows(df) :
          /\ Gt(rolling_max[t], df["Close"][t])
          /\ Gt(rolling_max[t], rolling_max[1])
          /\ Gt(Float(0), df["Drawdown"][t])

IsFlag(v) == v \in {0, 1}

\* C3: after compute_labels, at every row InCorrection = 1 iff
\* Drawdown <= -correction_threshold and InBearMarket = 1 iff
\* Drawdown <= -bear_threshold; so with bear_threshold >= correction_threshold
\* InBearMarket = 1 implies InCorrection = 1; closes 100,110,108,90,88,70
\* with thresholds 0.10/0.20 flag a correction but no bear market at row 3
\* and a bear market at row 5 (rows counted from 0).
C3_FlagsFollowDrawdown ==
    LabelsDone =>
        LET ct == config.correction_threshold
            bt == config.bear_threshold
        IN  /\ \A t \in 1..NRows(df) :
                  /\ IsFlag(df["InCorrection"][t])
                  /\ IsFlag(df["InBearMarket"][t])
                  /\ df["InCorrection"][t] = 1 <=> Le(df["Drawdown"][t], Neg(ct))
                  /\ df["InBearMarket"][t] = 1 <=> Le(df["Drawdown"][t], Neg(bt))
                  /\ Le(ct, bt) /\ df["InBearMarket"][t] = 1
                        => df["InCorrection"][t] = 1
            /\ df["Close"] = TestCloses /\ ct = Norm(1, 10) /\ bt = Norm(1, 5)
                  => /\ df["InCorrection"][4] = 1
                     /\ df["InBearMarket"][4] = 0
                     /\ df["InBearMarket"][6] = 1

\* A row exactly on the correction threshold and short of the bear
\* threshold, and a row exactly on the bear threshold.
C3_Witness ==
    /\ LabelsDone
    /\ config.correction_threshold = Norm(1, 10)
    /\ config.bear_threshold = Norm(1, 5)
    /\ \E t, u \in 1..NRows(df) :
          /\ df["Drawdown"][t] = Norm(-1, 10)
          /\ df["InCorrection"][t] = 1
          /\ df["InBearMarket"][t] = 0
          /\ df["Drawdown"][u] = Norm(-1, 5)
          /\ df["InBearMarket"][u] = 1

\* C4: after compute_labels, Label = 1 exactly when InCorrection = 1 or
\* InBearMarket = 1, at every row and for every pair of thresholds,
\* inverted pairs included.
C4_LabelIsDisjunction ==
    LabelsDone =>
        \A t \in 1..NRows(df) :
            /\ IsFlag(df["Label"][t])
            /\ df["Label"][t] = 1 <=>
                  (df["InCorrection"][t] = 1 \/ df["InBearMarket"][t] = 1)

\* Inverted thresholds: a row that is in a bear market but not in a
\* correction, and is labelled.
C4_Witness ==
    /\ LabelsDone
    /\ Gt(config.correction_threshold, config.bear_threshold)
    /\ \E t \in 1..NRows(df) :
          /\ df["InBearMarket"][t] = 1
          /\ df["InCorrection"][t] = 0
          /\ df["Label"][t] = 1

----------------------------------------------------------------------------
(* compute_indicators called on a table that already has the averages, as  *)
(* test_compute_indicators_adds_expected_columns calls it.                 *)

\* pd.DataFrame({"Close": ..., "SMA50": ..., "SMA200": ..., "EMA50": ...,
\* "EMA200": ...}) from a sequence of rows.
FrameOfRows(rows) ==
    [EmptyFrame EXCEPT
        !["Date"] = [i \in 1..Len(rows) |-> i],
        !["Close"] = [i \in 1..Len(rows) |-> rows[i].close],
        !["SMA50"] = [i \in 1..Len(rows) |-> rows[i].sma50],
        !["SMA200"] = [i \in 1..Len(rows) |-> rows[i].sma200],
        !["EMA50"] = [i \in 1..Len(rows) |-> rows[i].ema50],
        !["EMA200"] = [i \in 1..Len(rows) |-> rows[i].ema200]]

\* The table of the repository's test (test_analyzer.py:22-30).
TestIndicatorRows ==
    [i \in 1..6 |->
        [close |-> Float(98 + 2 * i), sma50 |-> Float(100),
         sma200 |-> Float(95), ema50 |-> Float(99 + i), ema200 |-> Float(98)]]

\* Values an average takes in a row: undefined, zero, positive.
AverageValues == {NaN, Float(0), Float(2)}

\* Rows of the enumerated tables.  Each pair of averages ranges over all
\* of AverageValues x AverageValues; the EMA pair takes the SMA pair's
\* values crosswise, which keeps the number of tables small.
IndicatorRows ==
    {[close |-> c, sma50 |-> a, sma200 |-> b, ema50 |-> b, ema200 |-> a] :
        c \in {Float(0), Float(3)}, a \in AverageValues, b \in AverageValues}

InitIndicators ==
    /\ pc = "call_indicators"
    /\ \E rows \in SeqsUpTo(IndicatorRows, MaxIndRows) \cup {TestIndicatorRows} :
          df = FrameOfRows(rows)
    /\ \E w \in 1..MaxSlopeWindow :
          config = [NoConfig EXCEPT !.slope_window = w]
    /\ yf = NotCalled
    /\ rolling_max = <<>>
    /\ error = NoError
    /\ csv = None

\* analyzer.compute_indicators(df, slope_window)
CallComputeIndicators ==
    /\ pc = "call_indicators"
    /\ pc' = "indicators_returned"
    /\ df' = compute_indicators(df, config.slope_window)
    /\ UNCHANGED <<config, yf, rolling_max, error, csv>>

NextIndicators == CallComputeIndicators

SpecIndicators == InitIndicators /\ [][NextIndicators]_vars

----------------------------------------------------------------------------
(* Properties of compute_indicators. *)

IndicatorsDone == pc = "indicators_returned"

SlopedAverages == {"SMA50", "EMA50", "SMA200", "EMA200"}

SlopeColumn(x) ==
    CASE x = "SMA50" -> "Slope_SMA50"
      [] x = "EMA50" -> "Slope_EMA50"
      [] x = "SMA200" -> "Slope_SMA200"
      [] x = "EMA200" -> "Slope_EMA200"

\* (a - b) / w on finite a, b, written out as one fraction.
SlopeFraction(a, b, w) ==
    Norm(a[1] * b[2] - b[1] * a[2], a[2] * b[2] * w)

\* C5: after compute_indicators with slope window w >= 1, for each of
\* SMA50, EMA50, SMA200, EMA200 and every row t, Slope_X[t] is
\* (X[t] - X[t-w]) / w when row t-w exists and both values are defined,
\* and undefined otherwise; a constant average has slope exactly 0 there,
\* and w >= series length leaves every slope undefined without an error.
C5_SlopeIsLaggedDifference ==
    IndicatorsDone =>
        LET w == config.slope_window
        IN  /\ ~error.raised
            /\ \A x \in SlopedAverages : \A t \in 1..NRows(df) :
                  LET slope == df[SlopeColumn(x)][t]
                  IN  IF t - w >= 1 /\ ~IsNaN(df[x][t]) /\ ~IsNaN(df[x][t - w])
                      THEN /\ slope = SlopeFraction(df[x][t], df[x][t - w], w)
                           /\ df[x][t] = df[x][t - w] => slope = Float(0)
                      ELSE IsNaN(slope)

\* The test's table with window 2: a zero slope of the constant SMA50 and a
\* slope of 1 of EMA50 in the last row, undefined slopes in the first two.
C5_Witness ==
    /\ IndicatorsDone
    /\ config.slope_window = 2
    /\ NRows(df) = 6
    /\ df["Slope_SMA50"][6] = Float(0)
    /\ df["Slope_EMA50"][6] = Float(1)
    /\ IsNaN(df["Slope_EMA50"][2])

\* C6: after compute_indicators, GoldenCross[t] is 1 if SMA50[t] > SMA200[t],
\* 0 if both averages are defined and SMA50[t] <= SMA200[t], and undefined
\* (neither 0 nor 1) when SMA50[t] or SMA200[t] is undefined.
C6_GoldenCrossPropagatesUndefined ==
    IndicatorsDone =>
        \A t \in 1..NRows(df) :
            LET a == df["SMA50"][t]
                b == df["SMA200"][t]
                g == df["GoldenCross"][t]
            IN  IF IsNaN(a) \/ IsNaN(b) THEN g \notin {0, 1}
                ELSE g = AsInt(Gt(a, b))

RatioColumns ==
    {<<"SMA50_to_SMA200", "SMA200">>, <<"EMA50_to_EMA200", "EMA200">>,
     <<"Dist_SMA200", "SMA200">>, <<"Dist_EMA200", "EMA200">>}

\* C7: in compute_indicators the ratio and distance columns are undefined
\* at every row whose divisor average is zero or undefined; none of them is
\* ever an infinity and the stage never raises.
C7_NoInfinity ==
    IndicatorsDone =>
        /\ ~error.raised
        /\ \A rc \in RatioColumns : \A t \in 1..NRows(df) :
              /\ ~IsInf(df[rc[1]][t])
              /\ IsNaN(df[rc[2]][t]) \/ df[rc[2]][t] = Float(0)
                    => IsNaN(df[rc[1]][t])

----------------------------------------------------------------------------
(* The pipeline: run_cli.                                                  *)

\* Dates are whole years since an epoch; pd.DateOffset(years=k) subtracts k.
default_start_end(years_back) ==
    LET end == Today
    IN  <<end - years_back, end>>

\* str.upper() on the tickers of the model.
Upper(ticker) == CASE ticker = "spy" -> "SPY" [] ticker = "SPY" -> "SPY"

TickerArgs == {"spy", "SPY"}
StartArgs == {None, Some(4)}
EndArgs == {None, Some(5)}
YearsBackArgs == {2}
\* --output is left out: the path is the default <TICKER>_features.csv.
OutputArgs == {None}

\* --correction-threshold / --bear-threshold: the defaults.
ThresholdArgs == {<<Norm(1, 10), Norm(1, 5)>>}

\* Closes the provider reports: a missing value or a non-negative price.
Prices == {Float(0), Float(1), Float(2)}
RawCloses == SeqsUpTo(Prices \cup {NaN}, MaxRows)

\* DataFrame.ffill() on a column.
RECURSIVE ffill(_)
ffill(s) ==
    IF s = <<>> THEN <<>>
    ELSE LET n == Len(s)
             head == ffill(SubSeq(s, 1, n - 1))
         IN  IF IsNaN(s[n]) /\ n > 1 THEN Append(head, head[n - 1])
             ELSE Append(head, s[n])

\* df.ffill().dropna(how="any") on the provider's table, index named Date.
CleanFrame(raw) ==
    LET filled == ffill(raw)
        keep == {t \in 1..Len(raw) : ~IsNaN(filled[t])}
    IN  [EmptyFrame EXCEPT
            !["Date"] = SelectRows([t \in 1..Len(raw) |-> t], keep, Len(raw)),
            !["Close"] = SelectRows(filled, keep, Len(raw))]

Init ==
    /\ pc = "run_cli"
    /\ config = NoConfig
    /\ yf = NotCalled
    /\ df = EmptyFrame
    /\ rolling_max = <<>>
    /\ error = NoError
    /\ csv = None

\* run_cli up to the call of analyze_ticker: parse the arguments and build
\* the AnalyzerConfig.
ParseArgs ==
    /\ pc = "run_cli"
    /\ \E ticker \in TickerArgs, start \in StartArgs, end \in EndArgs,
          w \in 1..MaxSlopeWindow, th \in ThresholdArgs,
          yb \in YearsBackArgs, out \in OutputArgs :
          config' = [ticker |-> Upper(ticker), start |-> start, end |-> end,
                     slope_window |-> w, correction_threshold |-> th[1],
                     bear_threshold |-> th[2], years_back |-> yb,
                     output_csv |-> out]
    /\ pc' = "download_data"
    /\ UNCHANGED <<yf, df, rolling_max, error, csv>>

\* Mutant of DownloadData: the empty result is not checked.
DownloadDataUnchecked ==
    /\ pc = "download_data"
    /\ \E raw \in RawCloses :
          LET inferred == default_start_end(config.years_back)
              start == IF config.start = None \/ config.end = None
                       THEN OrElse(config.start, inferred[1])
                       ELSE config.start[1]
              end == IF config.start = None \/ config.end = None
                     THEN OrElse(config.end, inferred[2])
                     ELSE config.end[1]
          IN  /\ yf' = [called |-> TRUE, ticker |-> config.ticker,
                        start |-> start, end |-> end, rows |-> Len(raw)]
              /\ df' = CleanFrame(raw)
              /\ pc' = "compute_moving_averages"
              /\ UNCHANGED error
    /\ UNCHANGED <<config, rolling_max, csv>>

\* download_data: resolve the range, ask the provider, raise on an empty
\* result, otherwise clean the table.
DownloadData ==
    /\ pc = "download_data"
    /\ \E raw \in RawCloses :
          LET inferred == default_start_end(config.years_back)
              start == IF config.start = None \/ config.end = None
                       THEN OrElse(config.start, inferred[1])
                       ELSE config.start[1]
              end == IF config.start = None \/ config.end = None
                     THEN OrElse(config.end, inferred[2])
                     ELSE config.end[1]
          IN  /\ yf' = [called |-> TRUE, ticker |-> config.ticker,
                        start |-> start, end |-> end, rows |-> Len(raw)]
              /\ IF raw = <<>>
                 THEN /\ error' = [raised |-> TRUE, ticker |-> config.ticker,
                                   start |-> start, end |-> end]
                      /\ pc' = "failed"
                      /\ UNCHANGED df
                 ELSE /\ df' = CleanFrame(raw)
                      /\ pc' = "compute_moving_averages"
                      /\ UNCHANGED error
    /\ UNCHANGED <<config, rolling_max, csv>>

ComputeMovingAverages ==
    /\ pc = "compute_moving_averages"
    /\ df' = compute_moving_averages(df)
    /\ pc' = "compute_indicators"
    /\ UNCHANGED <<config, yf, rolling_max, error, csv>>

ComputeIndicators ==
    /\ pc = "compute_indicators"
    /\ df' = compute_indicators(df, config.slope_window)
    /\ pc' = "compute_labels"
    /\ UNCHANGED <<config, yf, rolling_max, error, csv>>

ComputeLabels ==
    /\ pc = "compute_labels"
    /\ rolling_max' = cummax(df["Close"])
    /\ df' = compute_labels(df, config.correction_threshold,
                            config.bear_threshold)
    /\ pc' = "assemble"
    /\ UNCHANGED <<config, yf, error, csv>>

\* Mutant of Assemble: the labels are computed on the trimmed table.
AssembleThenLabel ==
    /\ pc = "assemble"
    /\ df' = compute_labels(dropna(df), config.correction_threshold,
                            config.bear_threshold)
    /\ pc' = "to_csv"
    /\ UNCHANGED <<config, yf, rolling_max, error, csv>>

\* prepare_dataset after the stages: dropna, reset_index and the projection
\* to the selected columns (every column of the model is selected).
Assemble ==
    /\ pc = "assemble"
    /\ df' = dropna(df)
    /\ pc' = "to_csv"
    /\ UNCHANGED <<config, yf, rolling_max, error, csv>>

\* run_cli after analyze_ticker returned: write the CSV.
WriteCsv ==
    /\ pc = "to_csv"
    /\ csv' = Some([path |-> OrElse(config.output_csv,
                                    <<config.ticker, "_features.csv">>),
                    dataset |-> df])
    /\ pc' = "done"
    /\ UNCHANGED <<config, yf, df, rolling_max, error>>

Next ==
    \/ ParseArgs
    \/ DownloadData
    \/ ComputeMovingAverages
    \/ ComputeIndicators
    \/ ComputeLabels
    \/ Assemble
    \/ WriteCsv

Spec == Init /\ [][Next]_vars

----------------------------------------------------------------------------
(* Properties of the pipeline. *)

\* The step in which prepare_dataset trims the table.
AssembleStep == pc = "assemble" /\ pc' = "to_csv"

\* Rows lost to warm-up: the slowest average's N - 1 rows, then the slope
\* window.
WarmUp(w) == (SlowWindow - 1) + w

NoUndefined(d) ==
    /\ \A c \in AllColumns : Len(d[c]) = NRows(d)
    /\ \A i \in DOMAIN FloatColumns : \A t \in 1..NRows(d) :
          ~IsNaN(d[FloatColumns[i]][t])
    /\ \A i \in DOMAIN IntColumns : \A t \in 1..NRows(d) :
          IsFlag(d[IntColumns[i]][t])

\* Row i of table a and row j of table b agree in every column.
SameRow(a, i, b, j) == \A c \in AllColumns : a[c][i] = b[c][j]

\* C2 as stated: the table prepare_dataset returns has no undefined value,
\* and for n input rows and slope window w >= 1 its row count is n minus
\* the longest warm-up (the slowest average's warm-up plus w), the
\* surviving rows being the input rows after the warm-up, in order.
C2_Original ==
    [][AssembleStep =>
          LET n == NRows(df)
              warm == WarmUp(config.slope_window)
          IN  /\ NoUndefined(df')
              /\ NRows(df') = n - warm
              /\ \A i \in 1..NRows(df') : SameRow(df', i, df, warm + i)]_vars

\* C2 amended: the table prepare_dataset returns has no undefined value in
\* any column and its rows are input rows in input order; when every
\* Close is positive and the slope window is w >= 1, its row count is
\* n minus the warm-up (the slowest average's warm-up plus w), or 0 when
\* n is smaller than that, and the surviving rows are exactly the input
\* rows after the warm-up.
C2_DenseAfterWarmUp ==
    [][AssembleStep =>
          LET n == NRows(df)
              warm == WarmUp(config.slope_window)
          IN  /\ NoUndefined(df')
              /\ NRows(df') <= n
              /\ \A i \in 1..NRows(df') : \E j \in i..n :
                    /\ SameRow(df', i, df, j)
                    /\ i > 1 => df'["Date"][i - 1] < df'["Date"][i]
              /\ (\A t \in 1..n : Gt(df["Close"][t], Float(0))) =>
                    /\ NRows(df') = IF n >= warm THEN n - warm ELSE 0
                    /\ \A i \in 1..NRows(df') :
                          SameRow(df', i, df, warm + i)]_vars

\* A returned table of two rows from positive closes, the first being the
\* first input row past the warm-up.
C2_Witness ==
    /\ pc = "to_csv"
    /\ NRows(df) = 2
    /\ \A t \in 1..NRows(df) : Gt(df["Close"][t], Float(0))
    /\ df["Date"][1] = WarmUp(config.slope_window) + 1
    /\ yf.rows = WarmUp(config.slope_window) + 2

\* C8: when the provider returns an empty table, download_data raises with
\* the ticker and the requested range, no later stage runs and no file is
\* written; a CSV is written only after ingestion and every stage have
\* completed.
C8_NoOutputWithoutData ==
    /\ yf.called /\ yf.rows = 0 =>
          /\ pc = "failed"
          /\ error = [raised |-> TRUE, ticker |-> config.ticker,
                      start |-> yf.start, end |-> yf.end]
          /\ df = EmptyFrame
          /\ csv = None
    /\ error.raised => csv = None /\ pc = "failed"
    /\ csv # None =>
          /\ pc = "done"
          /\ yf.called /\ yf.rows > 0
          /\ ~error.raised
          /\ csv[1].dataset = df
          /\ NoUndefined(df)
    /\ pc \in {"run_cli", "download_data"} => ~yf.called /\ csv = None

\* The run that failed on an empty result, with a supplied range.
C8_Witness ==
    /\ pc = "failed"
    /\ yf.rows = 0
    /\ error.raised
    /\ error.ticker = "SPY"
    /\ config.start = Some(error.start)
    /\ config.end = Some(error.end)

\* C9: in download_data a supplied date is used unchanged, an omitted end
\* defaults to today, and an omitted start defaults to the end date in use
\* minus years_back years, so the start used never falls after the end
\* used because of defaulting.
C9_StartDefaultsFromEndInUse ==
    yf.called =>
        /\ config.start # None => yf.start = config.start[1]
        /\ config.end # None => yf.end = config.end[1]
        /\ config.end = None => yf.end = Today
        /\ config.start = None =>
              /\ yf.start = yf.end - config.years_back
              /\ yf.start <= yf.end

StageOrder ==
    <<"run_cli", "download_data", "compute_moving_averages",
      "compute_indicators", "compute_labels", "assemble", "to_csv", "done">>

\* C10: prepare_dataset runs moving averages, indicators, labels and then
\* the trimming, in that order; each returned row keeps the Close and the
\* label values it had before trimming, and its Drawdown and flags are
\* measured against the maximum Close over all ingested rows up to it,
\* warm-up rows included.
C10_LabelsBeforeTrimming ==
    [][/\ pc' # pc /\ pc' # "failed" =>
             \E k \in 1..(Len(StageOrder) - 1) :
                 pc = StageOrder[k] /\ pc' = StageOrder[k + 1]
       /\ pc \in {"compute_moving_averages", "compute_indicators",
                  "compute_labels"} =>
             df'["Close"] = df["Close"] /\ df'["Date"] = df["Date"]
       /\ AssembleStep =>
             \A i \in 1..NRows(df') : \E j \in 1..NRows(df) :
                 /\ df["Date"][j] = df'["Date"][i]
                 /\ \A c \in {"Close", "Drawdown", "InCorrection",
                              "InBearMarket", "Label"} :
                       df'[c][i] = df[c][j]
                 /\ LET peak == MaxClose(df["Close"], j)
                        dd == Sub(Div(df["Close"][j], peak), Float(1))
                    IN  /\ df'["Drawdown"][i] = dd
                        /\ df'["InCorrection"][i] =
                              AsInt(Le(dd, Neg(config.correction_threshold)))
                        /\ df'["InBearMarket"][i] =
                              AsInt(Le(dd, Neg(config.bear_threshold)))]_vars

\* A returned table whose first row is below a peak that lies in the
\* dropped warm-up rows: no returned row up to it is higher, yet its
\* Drawdown is negative and it is labelled.
C10_Witness ==
    /\ pc = "to_csv"
    /\ NRows(df) >= 2
    /\ Gt(Float(0), df["Drawdown"][2])
    /\ Le(df["Close"][1], df["Close"][2])
    /\ df["Label"][2] = 1

====
